---- MODULE Spec2Model ----
(***************************************************************************)
(* Key-value store with a value-count index and an undo/redo history.     *)
(* Model of store/service.py (class Service) and of the /end route of     *)
(* store/router.py.                                                        *)
(***************************************************************************)
EXTENDS Integers, Sequences, FiniteSets, TLC

\* ---------------------------------------------------------------- bounds
\* number of Node objects one Service may allocate besides its root
MaxNodes == 3

\* number of Node objects the concurrent threads may allocate besides the root
MaxThreadNodes == 2

\* request inputs
Names == {"a", "b"}
Values == {10, 20}
\* the values a row can hold: undo of an unset re-binds the value the node
\* carries, which is 0 when the name had no row
Stored == Values \cup {0}

\* ------------------------------------------------------------- commands
\* Python None for a Node reference
NoNode == 0

NoCommand == [type |-> "NoCommand", name |-> "", value |-> 0, noop |-> FALSE]
SetCommand(name, value) ==
    [type |-> "SetCommand", name |-> name, value |-> value, noop |-> FALSE]
UnsetCommand(name, value, noop) ==
    [type |-> "UnsetCommand", name |-> name, value |-> value, noop |-> noop]

Node(command) == [command |-> command, prev |-> NoNode, next |-> NoNode]

\* ------------------------------------------------------ returned values
\* an optional integer: <<>> is None, <<v>> is v
None == <<>>
Some(v) == <<v>>

\* the strings undo and redo return
NoCommands == [text |-> "NO COMMANDS", name |-> "", value |-> None]
FallThrough == [text |-> "None", name |-> "", value |-> None]
Assigned(name, value) == [text |-> "name = value", name |-> name, value |-> value]
\* set, unset and end return nothing
Nothing == [text |-> "", name |-> "", value |-> None]

\* an exception left the call
Raised == [text |-> "raised", name |-> "", value |-> None]

\* the request threads of the server's pool that call the one Service
Threads == {"t1", "t2"}

\* a thread between two calls
Idle == [pc |-> "idle", new |-> NoNode, command |-> NoCommand]

VARIABLES
    entries,        \* datastore kind "Entry": name -> value, one row per bound name
    value_counts,   \* datastore kind "ValueCount": value -> count, one row per touched value
    nodes,          \* the Node objects of the current Service, nodes[1] is its root
    node,           \* Service.node, the history cursor (an index of nodes)
    last,           \* the last call: operation, arguments, result and the state it started from
    discarded,      \* the nodes that were ahead of the cursor when a set or unset appended
    barred,         \* a set or unset was called and undo has not been called since
    step,           \* how many calls of Script a fresh Service has followed, -1 once it left it
    txn,            \* the datastore transaction the running call has open, with its buffered writes
    frames          \* per request thread: where its call stands and what it holds

vars == <<entries, value_counts, nodes, node, last, discarded, barred, step, txn, frames>>

\* the empty table
Empty == [x \in {} |-> 0]

\* ------------------------------------------------------------ datastore
\* rows written by a transaction are buffered and applied on commit
Commit(rows, pending, deleted) ==
    [k \in ((DOMAIN rows) \cup (DOMAIN pending)) \ deleted |->
        IF k \in DOMAIN pending THEN pending[k] ELSE rows[k]]

\* _update_value_count that starts from 0 even when the row exists
_update_value_count_from_zero(counts, pending, value, diff) ==
    [k \in (DOMAIN pending) \cup {value} |-> IF k = value THEN diff ELSE pending[k]]

\* a transaction whose first put reached the rows although the commit failed
transaction_aborted_keeps_put(before, after) ==
    [entries |-> after.entries, value_counts |-> before.value_counts]

\* the rows when the commit of a transaction fails: the buffered puts and
\* deletes are dropped and the exception leaves the with block
transaction_aborted(before, after) ==
    [entries |-> before.entries, value_counts |-> before.value_counts]

\* ---------------------------------------------- transactions, write by write
\* one buffered write: a put or delete of an Entry key, or a put of a ValueCount key
EntryPut(name, value) ==
    [entity |-> "Entry", delete |-> FALSE, name |-> name, value |-> value, count |-> 0]
EntryDelete(name) ==
    [entity |-> "Entry", delete |-> TRUE, name |-> name, value |-> 0, count |-> 0]
ValueCountPut(value, count) ==
    [entity |-> "ValueCount", delete |-> FALSE, name |-> "", value |-> value, count |-> count]

\* no transaction is open
NoTxn == [open |-> FALSE, op |-> "", name |-> "", value |-> None, target |-> "",
          entries |-> Empty, value_counts |-> Empty, todo |-> <<>>, pending |-> <<>>]

\* the rows after one write has been applied to them
apply_write(rows, w) ==
    IF w.entity = "Entry"
    THEN [entries |-> IF w.delete
                      THEN Commit(rows.entries, Empty, {w.name})
                      ELSE Commit(rows.entries, [k \in {w.name} |-> w.value], {}),
          value_counts |-> rows.value_counts]
    ELSE [entries |-> rows.entries,
          value_counts |-> Commit(rows.value_counts, [k \in {w.value} |-> w.count], {})]

\* a put or delete that reaches the rows at once instead of the transaction's buffer
put_write_through(store, w) ==
    LET r == apply_write(store, w)
    IN  [entries |-> r.entries, value_counts |-> r.value_counts, pending |-> store.pending]

\* self.ds.put / self.ds.delete inside a transaction: the write joins the buffer
put(store, w) ==
    [entries |-> store.entries, value_counts |-> store.value_counts,
     pending |-> Append(store.pending, w)]

\* leaving the with block: the buffered writes reach the rows together, in order
RECURSIVE commit(_, _)
commit(rows, pending) ==
    IF pending = <<>> THEN rows ELSE commit(apply_write(rows, Head(pending)), Tail(pending))

\* the put of Service._update_value_count, from the rows the transaction reads
_update_value_count_write(counts, value, diff) ==
    ValueCountPut(value, (IF value \in DOMAIN counts THEN counts[value] ELSE 0) + diff)

\* the writes of Service._set_entry in program order
_set_entry_writes(rows, name, value) ==
    IF name \in DOMAIN rows.entries /\ rows.entries[name] = value
    THEN <<>>
    ELSE (IF name \in DOMAIN rows.entries
          THEN <<_update_value_count_write(rows.value_counts, rows.entries[name], -1)>>
          ELSE <<>>)
         \o <<EntryPut(name, value)>>
         \o <<_update_value_count_write(rows.value_counts, value, 1)>>

\* the writes of Service._unset_entry in program order
_unset_entry_writes(rows, name) ==
    IF name \in DOMAIN rows.entries
    THEN <<_update_value_count_write(rows.value_counts, rows.entries[name], -1),
           EntryDelete(name)>>
    ELSE <<>>

\* Service._update_value_count: the get reads the rows as they were when the
\* transaction began, the put is buffered
_update_value_count(counts, pending, value, diff) ==
    LET count == IF value \in DOMAIN counts THEN counts[value] ELSE 0
    IN  [k \in (DOMAIN pending) \cup {value} |->
            IF k = value THEN count + diff ELSE pending[k]]

\* _set_entry that leaves the count of the replaced value as it was
_set_entry_keeps_old_count(db, name, value) ==
    IF name \in DOMAIN db.entries /\ db.entries[name] = value
    THEN db
    ELSE [entries |-> Commit(db.entries, [k \in {name} |-> value], {}),
          value_counts |->
              Commit(db.value_counts,
                     _update_value_count(db.value_counts, Empty, value, 1), {})]

\* _set_entry without the early return for an unchanged value
_set_entry_no_early_return(db, name, value) ==
    LET p1 == IF name \in DOMAIN db.entries
              THEN _update_value_count(db.value_counts, Empty, db.entries[name], -1)
              ELSE Empty
        p2 == _update_value_count(db.value_counts, p1, value, 1)
    IN  [entries |-> Commit(db.entries, [k \in {name} |-> value], {}),
         value_counts |-> Commit(db.value_counts, p2, {})]

\* Service._set_entry: the rows after the transaction
_set_entry(db, name, value) ==
    IF name \in DOMAIN db.entries /\ db.entries[name] = value
    THEN db
    ELSE LET p1 == IF name \in DOMAIN db.entries
                   THEN _update_value_count(db.value_counts, Empty, db.entries[name], -1)
                   ELSE Empty
             e1 == [k \in {name} |-> value]
             p2 == _update_value_count(db.value_counts, p1, value, 1)
         IN  [entries |-> Commit(db.entries, e1, {}),
              value_counts |-> Commit(db.value_counts, p2, {})]

\* _unset_entry that also decrements the count of the value it returns for a
\* name without a row
_unset_entry_touches_zero(db, name) ==
    IF name \in DOMAIN db.entries
    THEN LET p1 == _update_value_count(db.value_counts, Empty, db.entries[name], -1)
         IN  [entries |-> Commit(db.entries, Empty, {name}),
              value_counts |-> Commit(db.value_counts, p1, {}),
              res |-> <<db.entries[name], TRUE>>]
    ELSE [entries |-> db.entries,
          value_counts |->
              Commit(db.value_counts,
                     _update_value_count(db.value_counts, Empty, 0, -1), {}),
          res |-> <<0, FALSE>>]

\* Service._unset_entry: the rows after the transaction and the returned pair
_unset_entry(db, name) ==
    IF name \in DOMAIN db.entries
    THEN LET p1 == _update_value_count(db.value_counts, Empty, db.entries[name], -1)
         IN  [entries |-> Commit(db.entries, Empty, {name}),
              value_counts |-> Commit(db.value_counts, p1, {}),
              res |-> <<db.entries[name], TRUE>>]
    ELSE [entries |-> db.entries, value_counts |-> db.value_counts,
          res |-> <<0, FALSE>>]

\* Service.get_entry: None or the value of the row
get_entry(rows, name) == IF name \in DOMAIN rows THEN Some(rows[name]) ELSE None

\* Service.get_value_count
get_value_count(counts, value) == IF value \in DOMAIN counts THEN counts[value] ELSE 0

\* -------------------------------------------------------------- history
\* _append_node that links the new node forward only when the cursor has no next
_append_node_keeps_next(ns, cur, new) ==
    LET id == Len(ns) + 1
        n1 == Append(ns, [new EXCEPT !.prev = cur])
        n2 == IF ns[cur].next = NoNode THEN [n1 EXCEPT ![cur].next = id] ELSE n1
    IN  [nodes |-> n2, node |-> id]

\* _append_node without the assignment node.prev = self.node
_append_node_no_prev(ns, cur, new) ==
    LET id == Len(ns) + 1
        n1 == Append(ns, new)
        n2 == [n1 EXCEPT ![cur].next = id]
    IN  [nodes |-> n2, node |-> n2[cur].next]

\* Service._append_node: the Node objects and the cursor afterwards
_append_node(ns, cur, new) ==
    LET id == Len(ns) + 1
        n1 == Append(ns, [new EXCEPT !.prev = cur])
        n2 == [n1 EXCEPT ![cur].next = id]
    IN  [nodes |-> n2, node |-> n2[cur].next]

\* undo that reports the value of the SetCommand it has just unset
undo_reports_set_value(db, ns, cur) ==
    LET c == ns[cur].command
    IN  CASE c.type = "NoCommand" ->
                [entries |-> db.entries, value_counts |-> db.value_counts,
                 node |-> cur, result |-> NoCommands]
          [] c.type = "SetCommand" ->
                LET r == _unset_entry(db, c.name)
                IN  [entries |-> r.entries, value_counts |-> r.value_counts,
                     node |-> ns[cur].prev, result |-> Assigned(c.name, Some(c.value))]
          [] c.type = "UnsetCommand" /\ ~c.noop ->
                LET r == _set_entry(db, c.name, c.value)
                IN  [entries |-> r.entries, value_counts |-> r.value_counts,
                     node |-> ns[cur].prev, result |-> Assigned(c.name, Some(c.value))]
          [] OTHER ->
                [entries |-> db.entries, value_counts |-> db.value_counts,
                 node |-> cur, result |-> FallThrough]

\* undo without the NoCommand case: the root falls through to the final return
undo_no_root_case(db, ns, cur) ==
    LET c == ns[cur].command
    IN  CASE c.type = "SetCommand" ->
                LET r == _unset_entry(db, c.name)
                IN  [entries |-> r.entries, value_counts |-> r.value_counts,
                     node |-> ns[cur].prev, result |-> Assigned(c.name, None)]
          [] c.type = "UnsetCommand" /\ ~c.noop ->
                LET r == _set_entry(db, c.name, c.value)
                IN  [entries |-> r.entries, value_counts |-> r.value_counts,
                     node |-> ns[cur].prev, result |-> Assigned(c.name, Some(c.value))]
          [] OTHER ->
                [entries |-> db.entries, value_counts |-> db.value_counts,
                 node |-> cur, result |-> FallThrough]

\* Service.undo: rows, cursor and returned string
undo(db, ns, cur) ==
    LET c == ns[cur].command
    IN  CASE c.type = "NoCommand" ->
                [entries |-> db.entries, value_counts |-> db.value_counts,
                 node |-> cur, result |-> NoCommands]
          [] c.type = "SetCommand" ->
                LET r == _unset_entry(db, c.name)
                IN  [entries |-> r.entries, value_counts |-> r.value_counts,
                     node |-> ns[cur].prev, result |-> Assigned(c.name, None)]
          [] c.type = "UnsetCommand" /\ ~c.noop ->
                LET r == _set_entry(db, c.name, c.value)
                IN  [entries |-> r.entries, value_counts |-> r.value_counts,
                     node |-> ns[cur].prev, result |-> Assigned(c.name, Some(c.value))]
          [] OTHER ->
                [entries |-> db.entries, value_counts |-> db.value_counts,
                 node |-> cur, result |-> FallThrough]

\* redo that applies the next node but leaves the cursor where it was
redo_no_advance(db, ns, cur) ==
    IF ns[cur].next = NoNode
    THEN [entries |-> db.entries, value_counts |-> db.value_counts,
          node |-> cur, result |-> NoCommands]
    ELSE LET c == ns[ns[cur].next].command
         IN  CASE c.type = "SetCommand" ->
                    LET r == _set_entry(db, c.name, c.value)
                    IN  [entries |-> r.entries, value_counts |-> r.value_counts,
                         node |-> cur, result |-> Assigned(c.name, Some(c.value))]
               [] c.type = "UnsetCommand" ->
                    LET r == _unset_entry(db, c.name)
                    IN  [entries |-> r.entries, value_counts |-> r.value_counts,
                         node |-> cur, result |-> Assigned(c.name, None)]
               [] OTHER ->
                    [entries |-> db.entries, value_counts |-> db.value_counts,
                     node |-> cur, result |-> FallThrough]

\* Service.redo: rows, cursor and returned string
redo(db, ns, cur) ==
    IF ns[cur].next = NoNode
    THEN [entries |-> db.entries, value_counts |-> db.value_counts,
          node |-> cur, result |-> NoCommands]
    ELSE LET c == ns[ns[cur].next].command
         IN  CASE c.type = "SetCommand" ->
                    LET r == _set_entry(db, c.name, c.value)
                    IN  [entries |-> r.entries, value_counts |-> r.value_counts,
                         node |-> ns[cur].next,
                         result |-> Assigned(c.name, Some(c.value))]
               [] c.type = "UnsetCommand" ->
                    LET r == _unset_entry(db, c.name)
                    IN  [entries |-> r.entries, value_counts |-> r.value_counts,
                         node |-> ns[cur].next, result |-> Assigned(c.name, None)]
               [] OTHER ->
                    [entries |-> db.entries, value_counts |-> db.value_counts,
                     node |-> cur, result |-> FallThrough]

\* end that deletes the rows of kind Entry only
end_entries_only(db) ==
    [entries |-> Commit(db.entries, Empty, DOMAIN db.entries),
     value_counts |-> db.value_counts]

\* Service.end: every row of every kind is deleted
end(db) == [entries |-> Commit(db.entries, Empty, DOMAIN db.entries),
            value_counts |-> Commit(db.value_counts, Empty, DOMAIN db.value_counts)]

\* Service.__init__: one root node carrying NoCommand
ServiceInit == [nodes |-> <<Node(NoCommand)>>, node |-> 1]

\* ---------------------------------------------------------------- calls
db == [entries |-> entries, value_counts |-> value_counts]

\* the nodes reached from node cur by following next
RECURSIVE Ahead(_, _)
Ahead(ns, cur) ==
    IF ns[cur].next = NoNode THEN {} ELSE {ns[cur].next} \cup Ahead(ns, ns[cur].next)

\* the example session of the documentation
Script ==
    << <<"set", "a", Some(10)>>, <<"set", "a", Some(20)>>, <<"unset", "a", None>>,
       <<"undo", "", None>>, <<"undo", "", None>>, <<"redo", "", None>> >>

Follow(op, name, value) ==
    IF step >= 0 /\ step < Len(Script) /\ Script[step + 1] = <<op, name, value>>
    THEN step + 1
    ELSE -1

Call(op, name, value, result) ==
    [op |-> op, name |-> name, value |-> value, result |-> result,
     entries |-> entries, value_counts |-> value_counts, node |-> node,
     allocated |-> Len(nodes)]

Init ==
    /\ entries = Empty
    /\ value_counts = Empty
    /\ nodes = ServiceInit.nodes
    /\ node = ServiceInit.node
    /\ last = [op |-> "init", name |-> "", value |-> None, result |-> Nothing,
               entries |-> Empty, value_counts |-> Empty, node |-> 1,
               allocated |-> 1]
    /\ discarded = {}
    /\ barred = FALSE
    /\ step = 0
    /\ txn = NoTxn
    /\ frames = [t \in Threads |-> Idle]

\* Service.set(name, value)
Set(name, value) ==
    /\ Len(nodes) <= MaxNodes
    /\ LET r == _set_entry(db, name, value)
           h == _append_node(nodes, node, Node(SetCommand(name, value)))
       IN  /\ entries' = r.entries
           /\ value_counts' = r.value_counts
           /\ nodes' = h.nodes
           /\ node' = h.node
    /\ last' = Call("set", name, Some(value), Nothing)
    /\ discarded' = discarded \cup Ahead(nodes, node)
    /\ barred' = TRUE
    /\ step' = Follow("set", name, Some(value))
    /\ UNCHANGED <<txn, frames>>

\* Service.unset(name)
Unset(name) ==
    /\ Len(nodes) <= MaxNodes
    /\ LET r == _unset_entry(db, name)
           h == _append_node(nodes, node, Node(UnsetCommand(name, r.res[1], r.res[2])))
       IN  /\ entries' = r.entries
           /\ value_counts' = r.value_counts
           /\ nodes' = h.nodes
           /\ node' = h.node
    /\ last' = Call("unset", name, None, Nothing)
    /\ discarded' = discarded \cup Ahead(nodes, node)
    /\ barred' = TRUE
    /\ step' = Follow("unset", name, None)
    /\ UNCHANGED <<txn, frames>>

\* Service.undo()
Undo ==
    LET r == undo(db, nodes, node)
    IN  /\ entries' = r.entries
        /\ value_counts' = r.value_counts
        /\ node' = r.node
        /\ last' = Call("undo", "", None, r.result)
        /\ barred' = FALSE
        /\ step' = Follow("undo", "", None)
        /\ UNCHANGED <<nodes, discarded, txn, frames>>

\* Service.redo()
Redo ==
    LET r == redo(db, nodes, node)
    IN  /\ entries' = r.entries
        /\ value_counts' = r.value_counts
        /\ node' = r.node
        /\ last' = Call("redo", "", None, r.result)
        /\ step' = Follow("redo", "", None)
        /\ UNCHANGED <<nodes, discarded, barred, txn, frames>>

\* Service.end() on its own: the rows go, the history stays
End ==
    LET r == end(db)
    IN  /\ entries' = r.entries
        /\ value_counts' = r.value_counts
        /\ last' = Call("end", "", None, Nothing)
        /\ step' = -1
        /\ UNCHANGED <<nodes, node, discarded, barred, txn, frames>>

\* the /end route: service.end() and then service = Service()
RouterEnd ==
    LET r == end(db)
    IN  /\ entries' = r.entries
        /\ value_counts' = r.value_counts
        /\ nodes' = ServiceInit.nodes
        /\ node' = ServiceInit.node
        /\ last' = Call("reset", "", None, Nothing)
        /\ discarded' = {}
        /\ barred' = FALSE
        /\ step' = 0
        /\ UNCHANGED <<txn, frames>>

\* Service.set(name, value) when the commit of _set_entry fails: the exception
\* leaves set before _append_node
SetAborted(name, value) ==
    /\ LET r == transaction_aborted(db, _set_entry(db, name, value))
       IN  /\ entries' = r.entries
           /\ value_counts' = r.value_counts
    /\ last' = Call("set", name, Some(value), Raised)
    /\ step' = -1
    /\ UNCHANGED <<nodes, node, discarded, barred, txn, frames>>

\* Service.unset(name) when the commit of _unset_entry fails
UnsetAborted(name) ==
    /\ LET r == transaction_aborted(db, _unset_entry(db, name))
       IN  /\ entries' = r.entries
           /\ value_counts' = r.value_counts
    /\ last' = Call("unset", name, None, Raised)
    /\ step' = -1
    /\ UNCHANGED <<nodes, node, discarded, barred, txn, frames>>

\* Service.undo() when the commit of the transaction it runs fails: the
\* exception leaves undo before self.node = self.node.prev
UndoAborted ==
    /\ LET c == nodes[node].command
       IN  c.type = "SetCommand" \/ (c.type = "UnsetCommand" /\ ~c.noop)
    /\ LET r == transaction_aborted(db, undo(db, nodes, node))
       IN  /\ entries' = r.entries
           /\ value_counts' = r.value_counts
    /\ last' = Call("undo", "", None, Raised)
    /\ barred' = FALSE
    /\ step' = -1
    /\ UNCHANGED <<nodes, node, discarded, txn, frames>>

\* Service.redo() when the commit of the transaction it runs fails: the
\* exception leaves redo before self.node = self.node.next
RedoAborted ==
    /\ nodes[node].next # NoNode
    /\ nodes[nodes[node].next].command.type \in {"SetCommand", "UnsetCommand"}
    /\ LET r == transaction_aborted(db, redo(db, nodes, node))
       IN  /\ entries' = r.entries
           /\ value_counts' = r.value_counts
    /\ last' = Call("redo", "", None, Raised)
    /\ step' = -1
    /\ UNCHANGED <<nodes, node, discarded, barred, txn, frames>>

\* the calls that keep a history
NextCalls ==
    \/ \E name \in Names, value \in Values : Set(name, value)
    \/ \E name \in Names : Unset(name)
    \/ Undo
    \/ Redo

Next ==
    \/ NextCalls
    \/ End
    \/ RouterEnd

\* every operation of the service and the /end route
Spec == Init /\ [][Next]_vars

\* set, unset, undo and redo alone on one Service
SpecCalls == Init /\ [][NextCalls]_vars

\* the calls, each of which may fail at the commit of its transaction
NextAborts ==
    \/ NextCalls
    \/ \E name \in Names, value \in Values : SetAborted(name, value)
    \/ \E name \in Names : UnsetAborted(name)
    \/ UndoAborted
    \/ RedoAborted

SpecAborts == Init /\ [][NextAborts]_vars

\* ------------------------------------------------ one call, write by write
\* the transaction a call runs on the rows it reads: whether it runs one, the
\* name it is about and its writes
CallTxn(op, name, value) ==
    LET cur == nodes[node].command
        nxt == IF nodes[node].next = NoNode THEN NoCommand
               ELSE nodes[nodes[node].next].command
        none == [runs |-> FALSE, target |-> "", writes |-> <<>>]
    IN  CASE op = "set" ->
                [runs |-> TRUE, target |-> name,
                 writes |-> _set_entry_writes(db, name, value[1])]
          [] op = "unset" ->
                [runs |-> TRUE, target |-> name, writes |-> _unset_entry_writes(db, name)]
          [] op = "undo" ->
                IF cur.type = "SetCommand"
                THEN [runs |-> TRUE, target |-> cur.name,
                      writes |-> _unset_entry_writes(db, cur.name)]
                ELSE IF cur.type = "UnsetCommand" /\ ~cur.noop
                THEN [runs |-> TRUE, target |-> cur.name,
                      writes |-> _set_entry_writes(db, cur.name, cur.value)]
                ELSE none
          [] op = "redo" ->
                IF nxt.type = "SetCommand"
                THEN [runs |-> TRUE, target |-> nxt.name,
                      writes |-> _set_entry_writes(db, nxt.name, nxt.value)]
                ELSE IF nxt.type = "UnsetCommand"
                THEN [runs |-> TRUE, target |-> nxt.name,
                      writes |-> _unset_entry_writes(db, nxt.name)]
                ELSE none

\* a call enters its with self.ds.transaction() block
Begin(op, name, value) ==
    /\ ~txn.open
    /\ op \in {"set", "unset"} => Len(nodes) <= MaxNodes
    /\ CallTxn(op, name, value).runs
    /\ txn' = [open |-> TRUE, op |-> op, name |-> name, value |-> value,
               target |-> CallTxn(op, name, value).target,
               entries |-> entries, value_counts |-> value_counts,
               todo |-> CallTxn(op, name, value).writes, pending |-> <<>>]
    /\ UNCHANGED <<entries, value_counts, nodes, node, last, discarded, barred, step, frames>>

\* the next self.ds.put or self.ds.delete of the block
Put ==
    /\ txn.open
    /\ txn.todo # <<>>
    /\ LET s == put([entries |-> entries, value_counts |-> value_counts,
                     pending |-> txn.pending], Head(txn.todo))
       IN  /\ entries' = s.entries
           /\ value_counts' = s.value_counts
           /\ txn' = [txn EXCEPT !.todo = Tail(txn.todo), !.pending = s.pending]
    /\ UNCHANGED <<nodes, node, last, discarded, barred, step, frames>>

\* the block is left, the transaction commits and the call runs to its return
CommitAndReturn ==
    /\ txn.open
    /\ txn.todo = <<>>
    /\ LET rows == commit(db, txn.pending)
           read == [entries |-> txn.entries, value_counts |-> txn.value_counts]
           began == [entries |-> txn.entries, value_counts |-> txn.value_counts,
                     node |-> node, allocated |-> Len(nodes)]
           call(result) ==
               [op |-> txn.op, name |-> txn.name, value |-> txn.value,
                result |-> result, entries |-> began.entries,
                value_counts |-> began.value_counts, node |-> began.node,
                allocated |-> began.allocated]
       IN  /\ entries' = rows.entries
           /\ value_counts' = rows.value_counts
           /\ CASE txn.op = "set" ->
                    LET h == _append_node(nodes, node,
                                          Node(SetCommand(txn.name, txn.value[1])))
                    IN  /\ nodes' = h.nodes
                        /\ node' = h.node
                        /\ last' = call(Nothing)
                        /\ discarded' = discarded \cup Ahead(nodes, node)
                        /\ barred' = TRUE
                [] txn.op = "unset" ->
                    LET res == _unset_entry(read, txn.name).res
                        h == _append_node(nodes, node,
                                          Node(UnsetCommand(txn.name, res[1], res[2])))
                    IN  /\ nodes' = h.nodes
                        /\ node' = h.node
                        /\ last' = call(Nothing)
                        /\ discarded' = discarded \cup Ahead(nodes, node)
                        /\ barred' = TRUE
                [] txn.op = "undo" ->
                    LET r == undo(read, nodes, node)
                    IN  /\ node' = r.node
                        /\ last' = call(r.result)
                        /\ barred' = FALSE
                        /\ UNCHANGED <<nodes, discarded>>
                [] txn.op = "redo" ->
                    LET r == redo(read, nodes, node)
                    IN  /\ node' = r.node
                        /\ last' = call(r.result)
                        /\ UNCHANGED <<nodes, discarded, barred>>
    /\ step' = Follow(txn.op, txn.name, txn.value)
    /\ txn' = NoTxn
    /\ UNCHANGED frames

\* undo() on the root or on a node it skips: no transaction is run
UndoPlain ==
    /\ ~txn.open
    /\ ~CallTxn("undo", "", None).runs
    /\ Undo

\* redo() without a next node: no transaction is run
RedoPlain ==
    /\ ~txn.open
    /\ ~CallTxn("redo", "", None).runs
    /\ Redo

\* one caller, whose transactions are seen write by write by concurrent
\* get_entry and get_value_count calls
NextWriter ==
    \/ \E name \in Names, value \in Values : Begin("set", name, Some(value))
    \/ \E name \in Names : Begin("unset", name, None)
    \/ Begin("undo", "", None)
    \/ Begin("redo", "", None)
    \/ Put
    \/ CommitAndReturn
    \/ UndoPlain
    \/ RedoPlain

SpecWriter == Init /\ [][NextWriter]_vars

\* ------------------------------------- calls of concurrent request threads
\* Each statement that reads or writes Service.node or a Node link is one step
\* of its thread; a transaction is one step. A step that dereferences a None
\* cursor raises AttributeError, which ends the call.
ThreadRest == <<last, discarded, barred, step, txn>>

Goto(t, pc) == [frames EXCEPT ![t].pc = pc]

\* set: line 84, _set_entry, and the Node(SetCommand(...)) of line 86
TSetEntry(t, name, value) ==
    /\ frames[t].pc = "idle"
    /\ Len(nodes) <= MaxThreadNodes
    /\ LET r == _set_entry(db, name, value)
       IN  /\ entries' = r.entries
           /\ value_counts' = r.value_counts
    /\ nodes' = Append(nodes, Node(SetCommand(name, value)))
    /\ frames' = [frames EXCEPT ![t] =
                      [pc |-> "append_prev", new |-> Len(nodes) + 1, command |-> NoCommand]]
    /\ UNCHANGED <<node, ThreadRest>>

\* unset: line 106, _unset_entry, and the Node(UnsetCommand(...)) of line 107
TUnsetEntry(t, name) ==
    /\ frames[t].pc = "idle"
    /\ Len(nodes) <= MaxThreadNodes
    /\ LET r == _unset_entry(db, name)
       IN  /\ entries' = r.entries
           /\ value_counts' = r.value_counts
           /\ nodes' = Append(nodes, Node(UnsetCommand(name, r.res[1], r.res[2])))
    /\ frames' = [frames EXCEPT ![t] =
                      [pc |-> "append_prev", new |-> Len(nodes) + 1, command |-> NoCommand]]
    /\ UNCHANGED <<node, ThreadRest>>

\* _append_node line 46: node.prev = self.node
TAppendPrev(t) ==
    /\ frames[t].pc = "append_prev"
    /\ nodes' = [nodes EXCEPT ![frames[t].new].prev = node]
    /\ frames' = Goto(t, "append_next")
    /\ UNCHANGED <<entries, value_counts, node, ThreadRest>>

\* _append_node line 47: self.node.next = node
TAppendNext(t) ==
    /\ frames[t].pc = "append_next"
    /\ IF node = NoNode
       THEN /\ frames' = [frames EXCEPT ![t] = Idle]
            /\ UNCHANGED nodes
       ELSE /\ nodes' = [nodes EXCEPT ![node].next = frames[t].new]
            /\ frames' = Goto(t, "append_cursor")
    /\ UNCHANGED <<entries, value_counts, node, ThreadRest>>

\* _append_node line 48: self.node = self.node.next, and the call returns
TAppendCursor(t) ==
    /\ frames[t].pc = "append_cursor"
    /\ node' = IF node = NoNode THEN NoNode ELSE nodes[node].next
    /\ frames' = [frames EXCEPT ![t] = Idle]
    /\ UNCHANGED <<entries, value_counts, nodes, ThreadRest>>

\* undo line 145: match self.node.command
TUndoMatch(t) ==
    /\ frames[t].pc = "idle"
    /\ IF node = NoNode
       THEN UNCHANGED frames
       ELSE LET c == nodes[node].command
            IN  IF c.type = "SetCommand" \/ (c.type = "UnsetCommand" /\ ~c.noop)
                THEN frames' = [frames EXCEPT ![t] =
                                   [pc |-> "undo_entry", new |-> NoNode, command |-> c]]
                ELSE UNCHANGED frames
    /\ UNCHANGED <<entries, value_counts, nodes, node, ThreadRest>>

\* undo lines 149 and 153: _unset_entry(name) or _set_entry(name, value)
TUndoEntry(t) ==
    /\ frames[t].pc = "undo_entry"
    /\ LET c == frames[t].command
           r == IF c.type = "SetCommand" THEN _unset_entry(db, c.name)
                ELSE _set_entry(db, c.name, c.value)
       IN  /\ entries' = r.entries
           /\ value_counts' = r.value_counts
    /\ frames' = Goto(t, "undo_cursor")
    /\ UNCHANGED <<nodes, node, ThreadRest>>

\* undo lines 150 and 154: self.node = self.node.prev, and the call returns
TUndoCursor(t) ==
    /\ frames[t].pc = "undo_cursor"
    /\ node' = IF node = NoNode THEN NoNode ELSE nodes[node].prev
    /\ frames' = [frames EXCEPT ![t] = Idle]
    /\ UNCHANGED <<entries, value_counts, nodes, ThreadRest>>

\* redo lines 165 and 168: the test of self.node.next and the match of its command
TRedoMatch(t) ==
    /\ frames[t].pc = "idle"
    /\ IF node = NoNode \/ nodes[node].next = NoNode
       THEN UNCHANGED frames
       ELSE frames' = [frames EXCEPT ![t] =
                          [pc |-> "redo_entry", new |-> NoNode,
                           command |-> nodes[nodes[node].next].command]]
    /\ UNCHANGED <<entries, value_counts, nodes, node, ThreadRest>>

\* redo lines 170 and 174: _set_entry(name, value) or _unset_entry(name)
TRedoEntry(t) ==
    /\ frames[t].pc = "redo_entry"
    /\ LET c == frames[t].command
           r == IF c.type = "SetCommand" THEN _set_entry(db, c.name, c.value)
                ELSE _unset_entry(db, c.name)
       IN  /\ entries' = r.entries
           /\ value_counts' = r.value_counts
    /\ frames' = Goto(t, "redo_cursor")
    /\ UNCHANGED <<nodes, node, ThreadRest>>

\* redo lines 171 and 175: self.node = self.node.next, and the call returns
TRedoCursor(t) ==
    /\ frames[t].pc = "redo_cursor"
    /\ node' = IF node = NoNode THEN NoNode ELSE nodes[node].next
    /\ frames' = [frames EXCEPT ![t] = Idle]
    /\ UNCHANGED <<entries, value_counts, nodes, ThreadRest>>

NextThreads ==
    \E t \in Threads :
        \/ \E name \in Names, value \in Values : TSetEntry(t, name, value)
        \/ \E name \in Names : TUnsetEntry(t, name)
        \/ TAppendPrev(t)
        \/ TAppendNext(t)
        \/ TAppendCursor(t)
        \/ TUndoMatch(t)
        \/ TUndoEntry(t)
        \/ TUndoCursor(t)
        \/ TRedoMatch(t)
        \/ TRedoEntry(t)
        \/ TRedoCursor(t)

\* set, unset, undo and redo called from two threads, with no lock in the code
SpecThreads == Init /\ [][NextThreads]_vars

\* ------------------------------------------------------------ properties
\* what get_entry and get_value_count answer is the same for two sets of rows
SameAnswers(e1, c1, e2, c2) ==
    /\ \A n \in Names : get_entry(e1, n) = get_entry(e2, n)
    /\ \A v \in Stored : get_value_count(c1, v) = get_value_count(c2, v)

Holders(v) == {n \in DOMAIN entries : entries[n] = v}

\* C1: after any sequence of set, unset, undo, redo and end calls, for every
\* value v get_value_count(v) is the number of names whose Entry row holds v.
C1_CountMatchesEntries ==
    \A v \in Stored \cup DOMAIN value_counts :
        get_value_count(value_counts, v) = Cardinality(Holders(v))

C1_Witness ==
    /\ last.op = "redo"
    /\ last.result.text = "name = value"
    /\ \E v \in Values : get_value_count(value_counts, v) = 2

\* C2: set(name, v) and then immediately undo() leaves get(name) and every
\* get_value_count as they were before the set.
C2_SetUndoRestores ==
    [][(last.op = "set" /\ last'.op = "undo") =>
            /\ get_entry(entries', last.name) = get_entry(last.entries, last.name)
            /\ \A v \in Stored :
                 get_value_count(value_counts', v) = get_value_count(last.value_counts, v)
      ]_vars

\* C3: with name bound to v, unset(name) and then immediately undo() binds name
\* to v again, restores get_value_count(v), moves the cursor back to the node it
\* was on before the unset and returns the transition (name, v).
C3_UnsetUndoRestores ==
    [][(last.op = "unset" /\ last.name \in DOMAIN last.entries /\ last'.op = "undo") =>
            LET v == last.entries[last.name]
            IN  /\ get_entry(entries', last.name) = Some(v)
                /\ get_value_count(value_counts', v) = get_value_count(last.value_counts, v)
                /\ node' = last.node
                /\ last'.result = Assigned(last.name, Some(v))
      ]_vars

\* C4: undo() and then immediately redo() leaves what get and get_value_count
\* answer as it was before that undo(); stated for the undo() calls that
\* return an applied transition.
C4_UndoRedoRestores ==
    [][(last.op = "undo" /\ last.result.text = "name = value" /\ last'.op = "redo") =>
            SameAnswers(entries', value_counts', last.entries, last.value_counts)
      ]_vars

\* C5: after a set or unset, every redo() before the next undo() returns
\* "NO COMMANDS" and changes no row, and no redo() ever applies a node that a
\* set or unset discarded.
C5_RedoBranchPruned ==
    last.op = "redo" =>
        /\ barred =>
            /\ last.result = NoCommands
            /\ entries = last.entries
            /\ value_counts = last.value_counts
            /\ node = last.node
        /\ last.result.text = "name = value" => node \notin discarded

C5_Witness ==
    /\ last.op = "redo"
    /\ barred
    /\ discarded # {}
    /\ last.result = NoCommands

\* the last call was a set or unset that asked for the value the name had
LastAskedCurrent ==
    /\ last.op \in {"set", "unset"}
    /\ get_entry(last.entries, last.name) = last.value

\* C6: a set or unset that asks for the name's current value is recorded in
\* history, and the undo() of it changes no Entry row and no Counter row.
C6_UndoOfNoopIsNoop ==
    [][(LastAskedCurrent /\ last'.op = "undo") =>
            /\ node # last.node
            /\ entries' = entries
            /\ value_counts' = value_counts
      ]_vars

\* C7: set(name, v) with name already bound to v changes no Counter row and no
\* Entry row, appends one node and moves the cursor to it, so that an undo()
\* right after does not return "NO COMMANDS".
C7_NoopSetRecorded ==
    (last.op = "set" /\ get_entry(last.entries, last.name) = last.value) =>
        /\ entries = last.entries
        /\ value_counts = last.value_counts
        /\ Len(nodes) = last.allocated + 1
        /\ node = Len(nodes)
        /\ node # last.node
        /\ nodes[node].prev = last.node
        /\ nodes[last.node].next = node
        /\ undo(db, nodes, node).result # NoCommands

C7_Witness ==
    /\ last.op = "set"
    /\ get_entry(last.entries, last.name) = last.value
    /\ last.node # 1

\* C8: undo() with the cursor on the root returns "NO COMMANDS", writes no
\* Entry or Counter row and leaves the cursor on the root.
C8_UndoAtRoot ==
    (last.op = "undo" /\ last.node = 1) =>
        /\ last.result = NoCommands
        /\ entries = last.entries
        /\ value_counts = last.value_counts
        /\ node = 1

C8_Witness ==
    /\ last.op = "undo"
    /\ last.node = 1
    /\ entries # Empty
    /\ Len(nodes) > 1

\* C9: after the /end route every name is absent, every count is 0, undo() and
\* redo() return "NO COMMANDS", and the reset is not recorded in history.
C9_ResetClears ==
    last.op = "reset" =>
        /\ \A n \in Names : get_entry(entries, n) = None
        /\ \A v \in Stored : get_value_count(value_counts, v) = 0
        /\ undo(db, nodes, node).result = NoCommands
        /\ redo(db, nodes, node).result = NoCommands
        /\ Len(nodes) = 1
        /\ nodes[node].command = NoCommand

C9_Witness ==
    /\ last.op = "reset"
    /\ last.entries # Empty
    /\ last.node # 1
    /\ last.allocated > 2

\* C10: from an empty store and fresh history, set("a",10); set("a",20);
\* unset("a"); undo(); undo(); redo() give in turn count(10)=1; count(10)=0 and
\* count(20)=1; count(20)=0 and get("a") absent; get("a")=20 and count(20)=1;
\* get("a")=10 and count(10)=1; get("a")=20.
C10_ExampleSession ==
    /\ step = 1 => get_value_count(value_counts, 10) = 1
    /\ step = 2 => /\ get_value_count(value_counts, 10) = 0
                   /\ get_value_count(value_counts, 20) = 1
    /\ step = 3 => /\ get_value_count(value_counts, 20) = 0
                   /\ get_entry(entries, "a") = None
    /\ step = 4 => /\ get_entry(entries, "a") = Some(20)
                   /\ get_value_count(value_counts, 20) = 1
    /\ step = 5 => /\ get_entry(entries, "a") = Some(10)
                   /\ get_value_count(value_counts, 10) = 1
    /\ step = 6 => get_entry(entries, "a") = Some(20)


\* C11: every undo() either returns "NO COMMANDS", exactly when the cursor is
\* on the root, and changes nothing; or it returns an applied transition and
\* moves the cursor exactly one node back, to the prev of the node it was on.
\* undo() on a non-root node never returns without moving the cursor.
C11_UndoTwoOutcomes ==
    last.op = "undo" =>
        IF last.node = 1
        THEN /\ last.result = NoCommands
             /\ entries = last.entries
             /\ value_counts = last.value_counts
             /\ node = last.node
        ELSE /\ last.result.text = "name = value"
             /\ last.result.name = nodes[last.node].command.name
             /\ node = nodes[last.node].prev
             /\ node # last.node

\* C12: every redo() either finds no next node, returns "NO COMMANDS" and
\* changes no Entry row, no Counter row and not the cursor; or it applies the
\* next node's command (the name bound to the recorded value for a set, the
\* name absent for an unset) and moves the cursor exactly one node forward.
C12_RedoTwoOutcomes ==
    last.op = "redo" =>
        IF nodes[last.node].next = NoNode
        THEN /\ last.result = NoCommands
             /\ entries = last.entries
             /\ value_counts = last.value_counts
             /\ node = last.node
        ELSE LET c == nodes[nodes[last.node].next].command
             IN  /\ node = nodes[last.node].next
                 /\ nodes[node].prev = last.node
                 /\ c.type \in {"SetCommand", "UnsetCommand"}
                 /\ c.type = "SetCommand" =>
                        /\ get_entry(entries, c.name) = Some(c.value)
                        /\ last.result = Assigned(c.name, Some(c.value))
                 /\ c.type = "UnsetCommand" =>
                        /\ get_entry(entries, c.name) = None
                        /\ last.result = Assigned(c.name, None)

C12_Witness ==
    /\ last.op = "redo"
    /\ nodes[last.node].next # NoNode
    /\ nodes[node].command.type = "UnsetCommand"
    /\ last.name \notin DOMAIN last.entries
    /\ last.node # 1

\* C13: under sequential calls the cursor always references a node: the root,
\* or a recorded node whose prev is a node whose next points back to it.
C13_CursorOnLinkedNode ==
    /\ node \in 1..Len(nodes)
    /\ \/ node = 1 /\ nodes[node].command = NoCommand
       \/ /\ node # 1
          /\ nodes[node].command # NoCommand
          /\ nodes[node].prev \in 1..Len(nodes)
          /\ nodes[nodes[node].prev].next = node

C13_Witness ==
    /\ last.op = "undo"
    /\ last.result.text = "name = value"
    /\ node # 1
    /\ discarded # {}


\* C17: one set(name, v) or unset(name) leaves the row of every other name and
\* the Counter row of every value other than name's old and new value as they
\* were; when the old value o and the new value differ, count(o) is exactly 1
\* less (o not absent) and count(new) exactly 1 more (new not absent).
C17_MutationFrame ==
    last.op \in {"set", "unset"} =>
        LET old == get_entry(last.entries, last.name)
            new == last.value
        IN  /\ \A m \in Names \ {last.name} :
                   get_entry(entries, m) = get_entry(last.entries, m)
            /\ \A w \in Stored \cup DOMAIN value_counts \cup DOMAIN last.value_counts :
                   (Some(w) # old /\ Some(w) # new) =>
                       /\ (w \in DOMAIN value_counts) = (w \in DOMAIN last.value_counts)
                       /\ get_value_count(value_counts, w)
                            = get_value_count(last.value_counts, w)
            /\ old # new =>
                   /\ old # None =>
                          get_value_count(value_counts, old[1])
                            = get_value_count(last.value_counts, old[1]) - 1
                   /\ new # None =>
                          get_value_count(value_counts, new[1])
                            = get_value_count(last.value_counts, new[1]) + 1

C17_Witness ==
    /\ last.op = "set"
    /\ get_entry(last.entries, last.name) \notin {None, last.value}
    /\ get_value_count(last.value_counts, last.value[1]) = 1
    /\ get_value_count(value_counts, last.value[1]) = 2

\* C18: unset(name) with name absent changes no Counter row and no Entry row,
\* creates no row for the value 0, and still appends one node to the history.
C18_UnsetAbsentRecorded ==
    (last.op = "unset" /\ last.name \notin DOMAIN last.entries) =>
        /\ entries = last.entries
        /\ value_counts = last.value_counts
        /\ (0 \in DOMAIN value_counts) = (0 \in DOMAIN last.value_counts)
        /\ Len(nodes) = last.allocated + 1
        /\ node = Len(nodes)
        /\ nodes[node].command.type = "UnsetCommand"
        /\ nodes[node].command.name = last.name
        /\ nodes[node].prev = last.node

C18_Witness ==
    /\ last.op = "unset"
    /\ last.name \notin DOMAIN last.entries
    /\ last.entries # Empty
    /\ 0 \notin DOMAIN value_counts

\* the number of prev links from node cur to the root
RECURSIVE Depth(_, _)
Depth(ns, cur) == IF cur = 1 THEN 0 ELSE 1 + Depth(ns, ns[cur].prev)

\* C19: repeated undo() calls reach the "NO COMMANDS" result, because each
\* undo() on a non-root node strictly shortens the distance from the cursor to
\* the root.
C19_UndoShortensDistance ==
    (last.op = "undo" /\ last.node # 1) =>
        Depth(nodes, node) < Depth(nodes, last.node)

\* C20: whenever undo() or redo() returns "name = value" or "name = None",
\* get_entry(name) yields that value (absent for None) right afterwards.
C20_ReturnedTransitionHolds ==
    (last.op \in {"undo", "redo"} /\ last.result.text = "name = value") =>
        get_entry(entries, last.result.name) = last.result.value

C20_Witness ==
    /\ last.op = "undo"
    /\ last.result.text = "name = value"
    /\ last.result.value # None


\* C16: when the transaction of a set, unset, undo or redo fails and the call
\* raises, every Entry row and Counter row is as before the call, no history
\* node is appended and the cursor is not moved.
C16_AbortLeavesNoTrace ==
    [][last'.result = Raised =>
            /\ entries' = entries
            /\ value_counts' = value_counts
            /\ nodes' = nodes
            /\ node' = node
      ]_vars

C16_Witness ==
    /\ last.result = Raised
    /\ last.op = "set"
    /\ get_entry(entries, last.name) \notin {None, last.value}
    /\ node # 1
    /\ nodes[node].next # NoNode


\* the rows a reader's get_entry(name) and get_value_count see differ from base
EntrySeenChanged(base, name) ==
    get_entry(entries, name) # get_entry(base.entries, name)
CountsSeenChanged(base) ==
    \E w \in Stored :
        get_value_count(value_counts, w) # get_value_count(base.value_counts, w)

\* C15: a concurrent reader never sees the rows with a name's value changed
\* but no count changed, or a count changed but the name's value not: while a
\* call's transaction is open (compared with the rows it began on) and once
\* the call has returned (compared with the rows before the call).
C15_WritesVisibleTogether ==
    /\ txn.open =>
            (EntrySeenChanged(txn, txn.target) <=> CountsSeenChanged(txn))
    /\ (~txn.open /\ last.op \in {"set", "unset"}) =>
            (EntrySeenChanged(last, last.name) <=> CountsSeenChanged(last))
    /\ \A v \in Stored : get_value_count(value_counts, v) = Cardinality(Holders(v))

C15_Witness ==
    /\ txn.open
    /\ txn.op = "set"
    /\ Len(txn.pending) = 2
    /\ Len(txn.todo) = 1
    /\ node # 1


\* thread t is inside the statements that inspect and update the cursor: past
\* line 46 of _append_node and before the end of line 48, or between the read
\* of self.node and the assignment of self.node in undo and redo
InCursorSteps(t) ==
    frames[t].pc \in {"append_next", "append_cursor", "undo_entry", "undo_cursor",
                      "redo_entry", "redo_cursor"}

\* C14: when two calls run concurrently on one Service, their cursor steps are
\* mutually exclusive, so that the cursor never becomes None.
C14_CursorStepsExclusive ==
    /\ \A t1, t2 \in Threads : (InCursorSteps(t1) /\ InCursorSteps(t2)) => t1 = t2
    /\ node # NoNode

====
